---- MODULE Spec2Model ----
(***************************************************************************)
(* A model of the p2v-mem-basic memory generator (g_mem, g_mem_row,        *)
(* g_mem_single, g_sram, g_ff_array, g_mux): the tiling plan it computes,  *)
(* the combinational decode and write-strobe expansion of the hardware it  *)
(* emits, that hardware's clocked behaviour, and its simulation tasks.     *)
(*                                                                         *)
(* Data words and masks are sets of bit positions (bit i is 1 iff i is in  *)
(* the set); addresses are naturals.  None is the string "None".           *)
(***************************************************************************)
EXTENDS Integers, FiniteSets, Sequences, TLC

VARIABLES
    cfg,          \* the arguments of g_mem.module
    pc,           \* "params" (before generation), "built", "fatal"
    plan,         \* the tiling plan and diagnostics of the generated memory
    io,           \* the values driven on the ports of the memory, per port
    sig,          \* the combinational signals derived from io, per port
    mem,          \* the stored lines: mem[y][x][line] of row y, bank x
    dout,         \* the read-data register of each leaf: dout[n][y][x]
    rd_select,    \* g_mem: the registered row selector of each port
    rd_valid_pre, \* g_mem: the registered read strobe of each port
    mux_out,      \* g_mux: the output register of each port (sample=True)
    mux_valid,    \* g_mux: the valid register of each port (sample=True)
    held,         \* per port, the last two read requests and the line read
    edge,         \* the ports clocked by the last step (none for a task call)
    tsk,          \* the last simulation task call and its outcome
    steps         \* clock edges and task calls so far

vars == <<cfg, pc, plan, io, sig, mem, dout, rd_select, rd_valid_pre, mux_out,
          mux_valid, held, edge, tsk, steps>>

(***************************************************************************)
(* Bounds of the model.                                                    *)
(***************************************************************************)
MaxBits == 6
MaxLines == 9
MaxSteps == 3

(***************************************************************************)
(* Program constants.                                                      *)
(***************************************************************************)
MAX_PORTS == 2
MAX_BITS == 8192
MAX_LINE_NUM == 1048576
MAX_BITS_PER_BANK == 8192
MAX_LINES_PER_ROW == 65536
MAX_BANK_NUM == 128
MAX_ROW_NUM == 128

None == "None"
Ports == 0 .. (MAX_PORTS - 1)

(***************************************************************************)
(* p2v.misc arithmetic used by the generator.                              *)
(***************************************************************************)
Pow2(k) == 2 ^ k

\* misc.log2: the number of bits that address n values (ceiling of log2)
log2(n) == CHOOSE k \in 0 .. 32 : Pow2(k) >= n /\ (k = 0 \/ Pow2(k - 1) < n)

\* a round-up that also steps past an exact multiple
roundup_past(num, round_to) == num + (round_to - (num % round_to))

\* misc.roundup: the least multiple of round_to that is >= num
roundup(num, round_to) ==
    IF num % round_to = 0 THEN num ELSE num + (round_to - (num % round_to))

is_pow2(n) == \E k \in 0 .. 30 : Pow2(k) = n

(***************************************************************************)
(* Bit vectors as sets of bit positions.                                   *)
(***************************************************************************)
\* misc.bits(x, len, start) / x[start:start+len]: the slice, moved down to bit 0
Slice(w, start, len) == { i - start : i \in { j \in w : j >= start /\ j < start + len } }

\* the word placed at bit position start of a wider bus
Shift(w, start) == { i + start : i \in w }

\* an address field [start, start+len) of a natural
Field(a, start, len) == (a \div Pow2(start)) % Pow2(len)

AllOnes(n) == 0 .. (n - 1)

(***************************************************************************)
(* Macro descriptors: the declared pins of a library macro, pin name to    *)
(* bit width.  The flip-flop fallback has no descriptor (NoSignals).       *)
(***************************************************************************)
NoSignals == [p \in {} |-> 0]

OptPin(name, width) == IF width > 0 THEN name :> width ELSE NoSignals

\* Convention A, one read/write port and one read port (the macro of the
\* basic_mem test bench is OpenRam1rw1r(32, 9, 4)); m is the wmask0 width
OpenRam1rw1r(w, a, m) ==
    ("clk0" :> 1) @@ ("csb0" :> 1) @@ ("web0" :> 1) @@ OptPin("wmask0", m) @@
    ("addr0" :> a) @@ ("din0" :> w) @@ ("dout0" :> w) @@
    ("clk1" :> 1) @@ ("csb1" :> 1) @@ ("addr1" :> a) @@ ("dout1" :> w)

\* Convention A, a single read/write port
OpenRam1rw(w, a, m) ==
    ("clk0" :> 1) @@ ("csb0" :> 1) @@ ("web0" :> 1) @@ OptPin("wmask0", m) @@
    ("addr0" :> a) @@ ("din0" :> w) @@ ("dout0" :> w)

\* Convention B, split write port / read port
Tsmc2p(w, a, m) ==
    ("CLKW" :> 1) @@ ("WEB" :> 1) @@ ("AA" :> a) @@ ("D" :> w) @@ OptPin("BWEB", m) @@
    ("CLKR" :> 1) @@ ("REB" :> 1) @@ ("AB" :> a) @@ ("Q" :> w)

\* Convention B, one combined read/write port
Tsmc1p(w, a, m) ==
    ("CLK" :> 1) @@ ("CEB" :> 1) @@ ("WEB" :> 1) @@ ("A" :> a) @@ ("D" :> w) @@
    ("Q" :> w) @@ OptPin("BWEB", m)

(***************************************************************************)
(* g_sram: pinout detection and the role -> pin name map.                  *)
(***************************************************************************)
\* a detection that looks for Convention B first
Convention_b_first(signals) ==
    IF "D" \in DOMAIN signals /\ "Q" \in DOMAIN signals
    THEN IF "AA" \in DOMAIN signals /\ "CLKW" \in DOMAIN signals
         THEN "tsmc_2p" ELSE "tsmc_1p"
    ELSE IF "din0" \in DOMAIN signals /\ "addr0" \in DOMAIN signals THEN "openram"
    ELSE "unknown"

\* _get_lib_names 214-262 and _get_lib_conn 271-320: the convention a pinout
\* is bound by
Convention(signals) ==
    IF "din0" \in DOMAIN signals /\ "addr0" \in DOMAIN signals THEN "openram"
    ELSE IF "D" \in DOMAIN signals /\ "Q" \in DOMAIN signals
         THEN IF "AA" \in DOMAIN signals /\ "CLKW" \in DOMAIN signals
              THEN "tsmc_2p" ELSE "tsmc_1p"
         ELSE "unknown"

OpenRamNames ==
    [n \in Ports |->
        IF n = 0
        THEN [clk |-> "clk0", csb |-> "csb0", web |-> "web0", din |-> "din0",
              addr |-> "addr0", wsel |-> "wmask0", dout |-> "dout0"]
        ELSE [clk |-> "clk1", csb |-> "csb1", web |-> "web1", din |-> "din1",
              addr |-> "addr1", wsel |-> "wmask1", dout |-> "dout1"]]

Tsmc2pNames ==
    [n \in Ports |->
        IF n = 0
        THEN [clk |-> "CLKW", csb |-> None, web |-> "WEB", din |-> "D",
              addr |-> "AA", wsel |-> "BWEB", dout |-> None]
        ELSE [clk |-> "CLKR", csb |-> None, web |-> "REB", din |-> None,
              addr |-> "AB", wsel |-> None, dout |-> "Q"]]

Tsmc1pNames ==
    [n \in Ports |->
        IF n = 0
        THEN [clk |-> "CLK", csb |-> "CEB", web |-> "WEB", din |-> "D",
              addr |-> "A", wsel |-> "BWEB", dout |-> "Q"]
        ELSE [clk |-> None, csb |-> None, web |-> None, din |-> None,
              addr |-> None, wsel |-> None, dout |-> None]]

\* _get_lib_names; an unrecognized pinout raises, which callers test first
\* with Convention(signals) = "unknown"
get_lib_names(signals) ==
    CASE Convention(signals) = "openram" -> OpenRamNames
      [] Convention(signals) = "tsmc_2p" -> Tsmc2pNames
      [] OTHER -> Tsmc1pNames

\* _check_port(sram_name, role n): the role maps to a pin the macro declares
check_port(signals, role, n) ==
    /\ get_lib_names(signals)[n][role] # None
    /\ get_lib_names(signals)[n][role] \in DOMAIN signals

\* a port type taken from the data pins when the port has not both controls
get_port_type_by_data(c, idx) ==
    IF ~c.has_sram THEN (IF idx = 0 THEN "w" ELSE "r")
    ELSE IF check_port(c.signals, "csb", idx) /\ check_port(c.signals, "web", idx)
         THEN "w/r"
    ELSE IF check_port(c.signals, "din", idx) THEN "w"
    ELSE IF check_port(c.signals, "dout", idx) THEN "r"
    ELSE ""

\* get_port_type: "w/r", "w", "r" or "" (no such port)
get_port_type(c, idx) ==
    IF ~c.has_sram THEN (IF idx = 0 THEN "w" ELSE "r")
    ELSE IF check_port(c.signals, "csb", idx) /\ check_port(c.signals, "web", idx)
         THEN "w/r"
    ELSE IF check_port(c.signals, "csb", idx) \/ check_port(c.signals, "web", idx)
         THEN (IF check_port(c.signals, "din", idx) THEN "w" ELSE "r")
    ELSE ""

\* a macro one line deeper than its address pin spans
get_params_odd_depth(c) ==
    IF ~c.has_sram
    THEN [bits |-> 0, addr_bits |-> 0, line_num |-> 0, dual_clk |-> FALSE,
          bit_sel |-> 1, port0 |-> "w", port1 |-> "r"]
    ELSE LET names == get_lib_names(c.signals)
             w == c.signals[names[0].din]
             a == c.signals[names[0].addr]
         IN [bits |-> w,
             addr_bits |-> a,
             line_num |-> Pow2(a) + 1,
             dual_clk |-> names[1].clk \in DOMAIN c.signals,
             bit_sel |-> IF names[0].wsel \in DOMAIN c.signals
                         THEN w \div c.signals[names[0].wsel] ELSE 0,
             port0 |-> get_port_type(c, 0),
             port1 |-> get_port_type(c, 1)]

\* get_params: geometry and capabilities derived from the macro's pins
get_params(c) ==
    IF ~c.has_sram
    THEN [bits |-> 0, addr_bits |-> 0, line_num |-> 0, dual_clk |-> FALSE,
          bit_sel |-> 1, port0 |-> "w", port1 |-> "r"]
    ELSE LET names == get_lib_names(c.signals)
             w == c.signals[names[0].din]
             a == c.signals[names[0].addr]
         IN [bits |-> w,
             addr_bits |-> a,
             line_num |-> Pow2(a),
             dual_clk |-> names[1].clk \in DOMAIN c.signals,
             bit_sel |-> IF names[0].wsel \in DOMAIN c.signals
                         THEN w \div c.signals[names[0].wsel] ELSE 0,
             port0 |-> get_port_type(c, 0),
             port1 |-> get_port_type(c, 1)]

(***************************************************************************)
(* g_mem.module: the tiling plan and the build-time checks.                *)
(* c.bit_sel = -1 stands for bit_sel=None; c.clk1 is "None", "same" (the   *)
(* caller passes clk0 twice) or "other" (a distinct second clock).         *)
(***************************************************************************)
\* the clock of port 1 after lines 68-73 and 133-134: TRUE iff it is a
\* clock distinct from clk0
two_clocks(c) ==
    IF c.has_sram
    THEN get_params(c).dual_clk /\ c.clk1 # "same"
    ELSE c.clk1 = "other"

\* lines 94-141: the plan of an input whose pinout is recognized
tiling(c) ==
    LET sp == get_params(c)
        ram_bits == IF c.has_sram THEN sp.bits ELSE 0
        ram_line_num == IF c.has_sram THEN sp.line_num ELSE 0
        port_num == IF c.has_sram THEN (IF sp.port1 # "" THEN 2 ELSE 1) ELSE 2
        bit_sel == IF c.bit_sel # -1 THEN c.bit_sel
                   ELSE IF c.has_sram THEN sp.bit_sel ELSE 1
        bits_roundup == IF c.has_sram THEN roundup(c.bits, ram_bits) ELSE c.bits
        bank_num == IF c.has_sram THEN bits_roundup \div ram_bits ELSE 1
        line_num_roundup == IF c.has_sram THEN roundup(c.line_num, ram_line_num)
                            ELSE c.line_num
        row_num == IF c.has_sram THEN line_num_roundup \div ram_line_num ELSE 1
        row_sel_bits == log2(row_num)
    IN [sram |-> sp,
        conv |-> IF c.has_sram THEN Convention(c.signals) ELSE "none",
        port_type |-> [n \in Ports |-> get_port_type(c, n)],
        has_pin |-> [n \in Ports |->
                       [r \in {"csb", "web", "din", "wsel", "dout"} |->
                           c.has_sram /\ check_port(c.signals, r, n)]],
        ram_bits |-> ram_bits,
        ram_line_num |-> ram_line_num,
        port_num |-> port_num,
        bit_sel |-> bit_sel,
        bits_roundup |-> bits_roundup,
        bank_num |-> bank_num,
        line_num_roundup |-> line_num_roundup,
        row_num |-> row_num,
        addr_bits |-> log2(c.line_num),
        lines_per_row |-> line_num_roundup \div row_num,
        bits_per_bank |-> bits_roundup \div bank_num,
        row_addr_bits |-> log2(line_num_roundup \div row_num),
        row_sel_bits |-> row_sel_bits,
        sram_addr_bits |-> log2(line_num_roundup) - row_sel_bits,
        two_clocks |-> two_clocks(c)]

\* assert_static(..., warning=True): diagnostics that do not stop the build
warnings(c, p) ==
    { w \in {"line_num_lt_ram", "bank_num", "row_num", "bits", "line_num",
             "bits_per_bank", "lines_per_row"} :
        \/ w = "line_num_lt_ram" /\ c.has_sram /\ ~(c.line_num >= p.ram_line_num)
        \/ w = "bank_num" /\ c.has_sram /\ ~(p.bank_num <= MAX_BANK_NUM)
        \/ w = "row_num" /\ c.has_sram /\ ~(p.row_num <= MAX_ROW_NUM)
        \/ w = "bits" /\ ~(c.bits <= MAX_BITS)
        \/ w = "line_num" /\ ~(c.line_num <= MAX_LINE_NUM)
        \/ w = "bits_per_bank" /\ ~(p.bits_per_bank <= MAX_BITS_PER_BANK)
        \/ w = "lines_per_row" /\ ~(p.lines_per_row <= MAX_LINES_PER_ROW) }

\* parameter assertions without the byte-select checks
fatal_asserts_no_bit_sel(c, p) ==
    { f \in {"bits_div_bank", "lines_div_row", "row_pow2"} :
        \/ f = "bits_div_bank" /\ ~((p.bits_roundup % p.bank_num) = 0)
        \/ f = "lines_div_row" /\ ~((p.line_num_roundup % p.row_num) = 0)
        \/ f = "row_pow2" /\ p.row_num > 1 /\ ~is_pow2(p.lines_per_row) }

\* lines 154-161: the fatal parameter assertions
fatal_asserts(c, p) ==
    { f \in {"bits_div_bank", "lines_div_row", "row_pow2", "bit_sel_bits",
             "bit_sel_bank"} :
        \/ f = "bits_div_bank" /\ ~((p.bits_roundup % p.bank_num) = 0)
        \/ f = "lines_div_row" /\ ~((p.line_num_roundup % p.row_num) = 0)
        \/ f = "row_pow2" /\ p.row_num > 1 /\ ~is_pow2(p.lines_per_row)
        \/ f = "bit_sel_bits" /\ p.bit_sel > 1 /\ ~((p.bits_roundup % p.bit_sel) = 0)
        \/ f = "bit_sel_bank" /\ p.bit_sel > 1 /\ ~((p.bits_per_bank % p.bit_sel) = 0) }

\* lines 85-86: set_param constraints
param_errors(c) ==
    { f \in {"bits_param", "line_num_param"} :
        \/ f = "bits_param" /\ ~(c.bits > 0)
        \/ f = "line_num_param" /\ ~(c.line_num > 1) }

NoPlan == [fatal |-> {"not built"}]

\* a build that every diagnostic stops, the warnings too
module_warnings_fatal(c) ==
    IF c.has_sram /\ Convention(c.signals) = "unknown"
    THEN [fatal |-> {"pinout"}]
    ELSE IF param_errors(c) # {} THEN [fatal |-> param_errors(c)]
    ELSE LET p == tiling(c)
         IN [fatal |-> fatal_asserts(c, p) \cup warnings(c, p),
             warnings |-> warnings(c, p)] @@ p

\* g_mem.module as a function of its arguments: the plan, with the fatal
\* diagnostics (empty iff the memory is generated) and the warnings
module(c) ==
    IF c.has_sram /\ Convention(c.signals) = "unknown"
    THEN [fatal |-> {"pinout"}]
    ELSE IF param_errors(c) # {} THEN [fatal |-> param_errors(c)]
    ELSE LET p == tiling(c)
         IN [fatal |-> fatal_asserts(c, p), warnings |-> warnings(c, p)] @@ p

Accepted(c) == module(c).fatal = {}

\* write inputs on every port the memory has
CanWrite_any(p, idx) == idx < p.port_num

\* g_mem.py 180-222: the ports that get write inputs, and read inputs
CanWrite(p, idx) == idx < p.port_num /\ p.port_type[idx] \in {"w", "w/r"}
CanRead(p, idx) == idx < p.port_num /\ p.port_type[idx] \in {"r", "w/r"}

(***************************************************************************)
(* The combinational logic g_mem and g_mem_row emit.  i is the record of   *)
(* values driven on one port: wr, wr_addr, wr_data, wr_in (the wr_sel or   *)
(* wr_strb input, whichever the granularity gives the port), rd, rd_addr.  *)
(***************************************************************************)
IdleIn == [wr |-> FALSE, wr_addr |-> 0, wr_data |-> {}, wr_in |-> {},
           rd |-> FALSE, rd_addr |-> 0]

\* a strobe with one more bit for the partial granule
strb_bits_ceil(c, p) == (c.bits + p.bit_sel - 1) \div p.bit_sel

\* g_mem.py 192: the width of the wr_strb input
strb_bits(c, p) == c.bits \div p.bit_sel

\* the bits of the select input a caller drives: none (bit_sel = 0), wr_sel
\* (bit_sel = 1) or wr_strb; with no strobe bit at all (bits < bit_sel) the
\* remainder is assigned from wr_strb[-1], a bit that no declaration gives a
\* value, modelled as one more free bit
SelInputBits(c, p) ==
    IF p.bit_sel = 0 THEN {}
    ELSE IF p.bit_sel = 1 THEN AllOnes(c.bits)
    ELSE IF strb_bits(c, p) = 0 THEN {-1}
    ELSE AllOnes(strb_bits(c, p))

\* a strobe expansion that leaves the remainder bits unassigned (zero)
wr_sel_no_remain(c, p, i) ==
    IF p.bit_sel = 0 THEN AllOnes(c.bits)
    ELSE IF p.bit_sel = 1 THEN i.wr_in
    ELSE UNION { IF k \in i.wr_in
                 THEN Shift(AllOnes(p.bit_sel), p.bit_sel * k) ELSE {}
                 : k \in AllOnes(c.bits \div p.bit_sel) }

\* g_mem.py 187-201: the write-strobe expansion, wr_sel of c.bits bits
wr_sel(c, p, i) ==
    IF p.bit_sel = 0 THEN AllOnes(c.bits)
    ELSE IF p.bit_sel = 1 THEN i.wr_in
    ELSE LET n == strb_bits(c, p)
             bit_sel_remain == c.bits % p.bit_sel
         IN UNION { IF k \in i.wr_in
                    THEN Shift(AllOnes(p.bit_sel), p.bit_sel * k) ELSE {}
                    : k \in AllOnes(n) }
            \cup (IF bit_sel_remain > 0 /\ (n - 1) \in i.wr_in
                  THEN Shift(AllOnes(bit_sel_remain), n * p.bit_sel) ELSE {})

\* a row decode that compares the low address bits
row_sel_low(p, addr) ==
    { y \in AllOnes(p.row_num) :
        IF p.row_num = 1 THEN TRUE
        ELSE Field(addr, 0, p.row_sel_bits) = y }

\* a thermometer decode: every row up to the addressed one
row_sel_upto(p, addr) ==
    { y \in AllOnes(p.row_num) :
        IF p.row_num = 1 THEN TRUE
        ELSE Field(addr, p.sram_addr_bits, p.row_sel_bits) >= y }

\* g_mem.py 242-250: the row-select vectors, as the set of selected rows
row_sel(p, addr) ==
    { y \in AllOnes(p.row_num) :
        IF p.row_num = 1 THEN TRUE
        ELSE Field(addr, p.sram_addr_bits, p.row_sel_bits) = y }

wr_row_sel(p, i) == row_sel(p, i.wr_addr)
rd_row_sel(p, i) == row_sel(p, i.rd_addr)

\* a row address that keeps the row-select bits
row_addr_whole(p, addr) == addr

\* g_mem.py 290-300: the address handed to every row
row_addr(p, addr) ==
    IF p.addr_bits > p.sram_addr_bits THEN Field(addr, 0, p.sram_addr_bits)
    ELSE addr

\* a write bank select tied to all ones, like the read one
bank_wr_sel_all(c, p, i) == AllOnes(p.bank_num)

\* g_mem_row.py 121-126: the bank-select vectors, as the set of selected banks
bank_wr_sel(c, p, i) ==
    { x \in AllOnes(p.bank_num) :
        Slice(wr_sel(c, p, i), p.bits_per_bank * x, p.bits_per_bank) # {} }

\* rd_en is False: rd{n}_en is tied to all ones
bank_rd_sel(p) == AllOnes(p.bank_num)

\* the never-assertions of g_mem (306-311) and of each row (g_mem_row 155-158)
\* that the driven values make fire
asserts(c, p, i) ==
    { a \in {"wr_no_row_sel", "rd_no_row_sel", "wr_no_bank_sel", "rd_no_bank_sel"} :
        \/ a = "wr_no_row_sel" /\ i.wr /\ wr_row_sel(p, i) = {}
        \/ a = "rd_no_row_sel" /\ i.rd /\ rd_row_sel(p, i) = {}
        \/ a = "wr_no_bank_sel" /\ \E y \in wr_row_sel(p, i) :
                                      i.wr /\ bank_wr_sel(c, p, i) = {}
        \/ a = "rd_no_bank_sel" /\ \E y \in rd_row_sel(p, i) :
                                      i.rd /\ bank_rd_sel(p) = {} }

\* all of it, for one port
comb(c, p, i) ==
    [wr_sel |-> wr_sel(c, p, i),
     wr_row_sel |-> wr_row_sel(p, i),
     rd_row_sel |-> rd_row_sel(p, i),
     wr_row_addr |-> row_addr(p, i.wr_addr),
     rd_row_addr |-> row_addr(p, i.rd_addr),
     bank_wr_sel |-> bank_wr_sel(c, p, i),
     bank_rd_sel |-> bank_rd_sel(p),
     asserts |-> asserts(c, p, i)]

(***************************************************************************)
(* The leaves: g_mem_row and g_mem_single hand every bank its slice of the *)
(* row's buses; g_sram wraps a flip-flop array or a library macro.         *)
(***************************************************************************)
Rows(p) == AllOnes(p.row_num)
Banks(p) == AllOnes(p.bank_num)

\* a register array of just the lines asked for
leaf_line_num_exact(c, p) ==
    IF c.has_sram THEN Pow2(p.sram.addr_bits) ELSE p.line_num_roundup \div p.row_num

\* g_sram.py 46-55: the lines of one leaf
leaf_line_num(c, p) ==
    IF c.has_sram THEN Pow2(p.sram.addr_bits) ELSE Pow2(p.row_addr_bits)

\* g_mem.py 288-301 and g_mem_row.py 139-147: what port n of bank x of row y
\* sees when i is driven on the port
leaf_in(c, p, i, y, x) ==
    [wr |-> i.wr /\ y \in wr_row_sel(p, i) /\ x \in bank_wr_sel(c, p, i),
     wr_addr |-> row_addr(p, i.wr_addr) % leaf_line_num(c, p),
     wr_data |-> Slice(i.wr_data, p.bits_per_bank * x, p.bits_per_bank),
     wr_sel |-> Slice(wr_sel(c, p, i), p.bits_per_bank * x, p.bits_per_bank),
     rd |-> i.rd /\ y \in rd_row_sel(p, i) /\ x \in bank_rd_sel(p),
     rd_addr |-> row_addr(p, i.rd_addr) % leaf_line_num(c, p)]

\* g_sram.py 169-184: the direction assertions of the leaf wrapper that what
\* port n of the leaf sees makes fire
leaf_asserts(p, n, l) ==
    { a \in {"write_on_read_only", "read_on_write_only"} :
        /\ p.port_type[n] # ""
        /\ \/ a = "write_on_read_only" /\ p.port_type[n] \notin {"w", "w/r"} /\ l.wr
           \/ a = "read_on_write_only" /\ p.port_type[n] \notin {"r", "w/r"} /\ l.rd }

\* g_sram.py 121-131: the per-granule write select handed to the macro; the
\* granularity here is always the macro's own
wsel(p, l) ==
    LET bs == p.sram.bit_sel
    IN IF bs = 0 THEN {}
       ELSE IF bs = 1 THEN l.wr_sel
       ELSE { g \in AllOnes(p.bits_per_bank \div bs) : Slice(l.wr_sel, bs * g, bs) # {} }

\* the granules of the macro's write-mask pin
Granules(p) ==
    IF p.sram.bit_sel = 0 THEN {} ELSE AllOnes(p.bits_per_bank \div p.sram.bit_sel)

\* g_sram.py 267-323 (_get_lib_conn): the values driven on the pins of port n.
\* A one-bit pin is TRUE when high; wsel is the set of mask-pin bits that are 1.
get_lib_conn(p, n, l) ==
    CASE p.conv = "openram" ->
            [csb |-> ~(l.wr \/ l.rd),
             web |-> l.rd,
             addr |-> IF l.wr THEN l.wr_addr ELSE l.rd_addr,
             din |-> l.wr_data,
             wsel |-> wsel(p, l)]
      [] p.conv = "tsmc_2p" ->
            IF n = 0
            THEN [csb |-> FALSE, web |-> l.wr, addr |-> l.wr_addr,
                  din |-> l.wr_data, wsel |-> wsel(p, l)]
            ELSE [csb |-> FALSE, web |-> l.rd, addr |-> l.rd_addr,
                  din |-> {}, wsel |-> {}]
      [] OTHER ->
            [csb |-> ~(l.wr \/ l.rd),
             web |-> l.rd,
             addr |-> IF l.wr THEN l.wr_addr ELSE l.rd_addr,
             din |-> l.wr_data,
             wsel |-> Granules(p) \ wsel(p, l)]

(***************************************************************************)
(* The library macro itself (an external Verilog module): chip select,     *)
(* write enable, read enable and BWEB are active low; wmask of Convention  *)
(* A is active high; a port without a chip-select pin is always selected.  *)
(***************************************************************************)
macro_selected(p, n, pins) == ~p.has_pin[n]["csb"] \/ ~pins.csb

macro_writes(p, n, pins) ==
    /\ macro_selected(p, n, pins)
    /\ p.has_pin[n]["din"]
    /\ p.has_pin[n]["web"] /\ ~pins.web

macro_reads(p, n, pins) ==
    /\ macro_selected(p, n, pins)
    /\ p.has_pin[n]["dout"]
    /\ IF p.has_pin[n]["din"]
       THEN p.has_pin[n]["web"] /\ pins.web
       ELSE p.has_pin[n]["web"] => ~pins.web

\* the bits of the addressed line a write replaces
macro_wbits(p, n, pins) ==
    IF ~p.has_pin[n]["wsel"] THEN AllOnes(p.bits_per_bank)
    ELSE UNION { IF (p.conv = "openram") = (g \in pins.wsel)
                 THEN Shift(AllOnes(p.sram.bit_sel), p.sram.bit_sel * g) ELSE {}
                 : g \in Granules(p) }

macro_mem_next(p, n, pins, m) ==
    IF macro_writes(p, n, pins)
    THEN [m EXCEPT ![pins.addr] =
             (macro_wbits(p, n, pins) \cap pins.din) \cup (@ \ macro_wbits(p, n, pins))]
    ELSE m

\* g_ff_array.py 84: the masked write of the register array
ff_mem_next(l, m) ==
    IF l.wr
    THEN [m EXCEPT ![l.wr_addr] = (l.wr_sel \cap l.wr_data) \cup (@ \ l.wr_sel)]
    ELSE m

\* One leaf over a clock edge on which the ports in T are clocked: the
\* lines after the edge.  ins[n] is what port n of the leaf sees.
leaf_mem_next(c, p, T, ins, m) ==
    IF ~c.has_sram
    THEN (IF 0 \in T THEN ff_mem_next(ins[0], m) ELSE m)
    ELSE LET m0 == IF 0 \in T /\ p.port_type[0] # ""
                   THEN macro_mem_next(p, 0, get_lib_conn(p, 0, ins[0]), m)
                   ELSE m
         IN IF 1 \in T /\ p.port_type[1] # ""
            THEN macro_mem_next(p, 1, get_lib_conn(p, 1, ins[1]), m0)
            ELSE m0

\* the read-data register of port n of the leaf after the edge (g_sram.py
\* 113-115, 152-153, 183; g_ff_array.py 86-87); hz tells whether a macro read
\* that meets a write on the same edge sees the line before or after it
leaf_dout_next(c, p, T, n, ins, m, d, hz) ==
    IF n \notin T \/ p.port_type[n] \notin {"r", "w/r"} THEN d
    ELSE IF ~c.has_sram
    THEN (IF ins[n].rd THEN m[ins[n].rd_addr] ELSE d)
    ELSE LET pins == get_lib_conn(p, n, ins[n])
         IN IF macro_reads(p, n, pins)
            THEN (IF hz = "new" THEN leaf_mem_next(c, p, T, ins, m) ELSE m)[pins.addr]
            ELSE d

(***************************************************************************)
(* g_mem: the read path of a port.                                         *)
(***************************************************************************)
\* g_mem_row.py 146 and g_mem.py 301: the read data of row y, the banks'
\* registers side by side
rd_row_data(p, n, y, d) == UNION { Shift(d[n][y][x], p.bits_per_bank * x) : x \in Banks(p) }

\* g_mux.py 92-96: the and-or multiplexer over the decoded selector
mux_lines(p, n, sel, d) == UNION { rd_row_data(p, n, y, d) : y \in sel }

\* g_mem.py 225-228 and g_mux.py 98-103: rd_data of port n
rd_data(c, p, n, sel, d, mo) ==
    Slice(IF c.sample_out THEN mo[n] ELSE mux_lines(p, n, sel[n], d), 0, c.bits)

\* a valid that bypasses the output stage
rd_valid_unsampled(c, n, vp, mv) == vp[n]

\* g_mux.py 98-105: rd_valid of port n
rd_valid(c, n, vp, mv) == IF c.sample_out THEN mv[n] ELSE vp[n]

\* g_mux.py 35: the parameters g_mux.module declares, with their defaults
mux_params ==
    [clk |-> "default_clk", num |-> 8, bits |-> 32, encode |-> TRUE, sample |-> FALSE,
     valid |-> FALSE]

\* g_mem.py 267: the arguments g_mem calls g_mux.module with, by name (the
\* clock is passed by position)
mux_call(c, p) ==
    [clk |-> "clks[idx]", num |-> p.row_num, bits |-> p.bits_roundup, encode |-> FALSE,
     sample |-> c.sample_out, has_valid |-> TRUE]

\* the values of the declared parameters under a call: the argument where
\* the call names the parameter, the default elsewhere
mux_args(call) ==
    [k \in DOMAIN mux_params |-> IF k \in DOMAIN call THEN call[k] ELSE mux_params[k]]

\* g_mux.py 73-82: the ports the multiplexer declares, as <<name, index>>
\* (index -1 for a port that is not one of a family)
mux_ports(a) ==
    (IF a.sample THEN {<<"clk", -1>>} ELSE {})
    \cup (IF a.valid THEN {<<"valid", -1>>, <<"valid_out", -1>>} ELSE {})
    \cup {<<"sel", -1>>, <<"out", -1>>}
    \cup { <<"in", n>> : n \in AllOnes(a.num) }

\* g_mem.py 268-275: the ports of the multiplexer g_mem binds
mux_bound(c, p) ==
    (IF c.sample_out THEN {<<"clk", -1>>} ELSE {})
    \cup {<<"valid", -1>>, <<"sel", -1>>, <<"out", -1>>, <<"valid_out", -1>>}
    \cup { <<"din", y>> : y \in AllOnes(p.row_num) }

\* g_mux.py 107-108: the decoded selector is one-hot or zero
is_hotone(sel) == Cardinality(sel) <= 1

(***************************************************************************)
(* The simulation tasks (g_mem._tasks, g_mem_row._tasks,                   *)
(* g_mem_single._tasks and the tasks of g_sram).                           *)
(***************************************************************************)
\* a range check that lets the first address past the memory through
task_range_error_past(p, addr) == addr > p.line_num_roundup

\* g_mem.py 329: the fatal range check of the top-level task
task_range_error(p, addr) == addr >= p.line_num_roundup

\* a dispatch without the row condition
task_rows_all(p, addr) == Rows(p)

\* g_mem.py 331-339: the rows the task dispatches to
task_rows(p, addr) ==
    { y \in Rows(p) :
        IF p.row_num = 1 THEN TRUE
        ELSE Field(addr, p.row_addr_bits, p.row_sel_bits) = y }

\* g_mem.py 335, g_mem_single.py 135, g_sram.py 193: the line inside the leaf
task_line(c, p, addr) == Field(addr, 0, p.row_addr_bits) % leaf_line_num(c, p)

\* write(addr, data) of an in-range address: the stored lines afterwards
task_write(c, p, m, addr, data) ==
    [y \in Rows(p) |->
        [x \in Banks(p) |->
            IF y \in task_rows(p, addr)
            THEN [m[y][x] EXCEPT ![task_line(c, p, addr)] =
                     Slice(data, p.bits_per_bank * x, p.bits_per_bank)]
            ELSE m[y][x]]]

\* read(addr, data) of an in-range address: the data returned
task_read(c, p, m, addr) ==
    UNION { Shift(m[y][x][task_line(c, p, addr)], p.bits_per_bank * x)
            : y \in task_rows(p, addr), x \in Banks(p) }

\* g_mem.py 314 and 349-354: the lines of temp_mem and the bound of the loop
\* of write_file, the line_num handed to _tasks
file_lines(p) == p.line_num_roundup

\* g_mem.py 346-360: write_file from line_idx on; image is temp_mem after
\* $readmemh, calls the addresses write was called with so far.  The result
\* is the stored lines, the calls, and whether a call raised the range error.
RECURSIVE write_file(_, _, _, _, _, _)
write_file(c, p, m, image, line_idx, calls) ==
    IF line_idx < file_lines(p)
    THEN IF task_range_error(p, line_idx)
         THEN [mem |-> m, calls |-> Append(calls, line_idx), error |-> TRUE]
         ELSE write_file(c, p, task_write(c, p, m, line_idx, image[line_idx]), image,
                         line_idx + 1, Append(calls, line_idx))
    ELSE [mem |-> m, calls |-> calls, error |-> FALSE]

(***************************************************************************)
(* Configurations and driven values.                                       *)
(***************************************************************************)
Cfg(signals, bits, line_num, bit_sel, sample_out, clk1) ==
    [has_sram |-> signals # NoSignals, signals |-> signals, bits |-> bits,
     line_num |-> line_num, bit_sel |-> bit_sel, sample_out |-> sample_out,
     clk1 |-> clk1]

\* the two memories of the basic_mem test bench
TbMain == Cfg(OpenRam1rw1r(32, 9, 4), 64, 4096, -1, TRUE, "other")
TbLocal == Cfg(NoSignals, 17, 64, -1, FALSE, "other")

\* a macro whose pins match no convention
UnknownMacro == ("clk" :> 1) @@ ("we" :> 1) @@ ("a" :> 2) @@ ("d" :> 4) @@ ("q" :> 4)

PlanMacros ==
    { NoSignals, UnknownMacro,
      OpenRam1rw1r(2, 1, 1), OpenRam1rw1r(4, 2, 2), OpenRam1rw1r(8, 1, 1),
      OpenRam1rw(4, 2, 0), OpenRam1rw(3, 3, 3),
      Tsmc2p(4, 1, 4), Tsmc2p(2, 2, 1), Tsmc1p(3, 2, 3), Tsmc1p(4, 1, 2) }

\* the pins in opt, one bit wide, next to the pins of base
WithPins(base, opt) == [n \in opt |-> 1] @@ base

\* macros of every convention that declare any subset of the control and
\* data pins the convention's name map knows beyond those that detect it
PinMacros ==
    { WithPins(("clk0" :> 1) @@ ("addr0" :> 1) @@ ("din0" :> 2), opt) :
        opt \in SUBSET {"csb0", "web0", "dout0", "csb1", "web1", "din1", "dout1"} }
    \cup { WithPins(("CLK" :> 1) @@ ("A" :> 1) @@ ("D" :> 2) @@ ("Q" :> 2), opt) :
        opt \in SUBSET {"CEB", "WEB", "BWEB"} }
    \cup { WithPins(("CLKW" :> 1) @@ ("AA" :> 1) @@ ("D" :> 2) @@
                    ("CLKR" :> 1) @@ ("AB" :> 1) @@ ("Q" :> 2), opt) :
        opt \in SUBSET {"WEB", "REB", "BWEB"} }

\* macros that declare any subset of the pins the detection looks at
DetectMacros ==
    { WithPins(("CLK" :> 1) @@ ("A" :> 1), opt) :
        opt \in SUBSET {"din0", "addr0", "D", "Q", "AA", "CLKW"} }

\* inputs that overrun one soft ceiling each (bank_num, row_num, bits,
\* line_num, bits_per_bank, lines_per_row); the last two also ask for fewer
\* lines than the macro has
CeilingConfigs ==
    { Cfg(OpenRam1rw1r(2, 1, 1), 2 * MAX_BANK_NUM + 2, 4, -1, FALSE, None),
      Cfg(OpenRam1rw1r(2, 1, 1), 2, 2 * MAX_ROW_NUM + 2, -1, FALSE, None),
      Cfg(NoSignals, MAX_BITS + 1, 4, -1, FALSE, None),
      Cfg(NoSignals, 2, MAX_LINE_NUM + 1, -1, FALSE, None),
      Cfg(OpenRam1rw(MAX_BITS_PER_BANK + 1, 3, 0), 2, 4, -1, FALSE, None),
      Cfg(OpenRam1rw(2, 17, 0), 2, 4, -1, FALSE, None) }

\* the inputs of the generator that the planning claims range over
PlanConfigs ==
    { Cfg(s, b, l, g, FALSE, None) :
        s \in PlanMacros, b \in 0 .. MaxBits, l \in 1 .. MaxLines, g \in {-1, 0, 1, 2, 3} }
    \cup { TbMain, TbLocal,
           Cfg(OpenRam1rw1r(32, 9, 4), 17, 64, -1, FALSE, None),
           Cfg(OpenRam1rw1r(32, 9, 4), 17, 64, 1, FALSE, None) }
    \cup { Cfg(s, 2, 4, -1, FALSE, None) : s \in PinMacros \cup DetectMacros }
    \cup CeilingConfigs

\* the memories whose decode logic is driven
CombMacros == { NoSignals, OpenRam1rw1r(2, 1, 1), Tsmc1p(3, 2, 3) }

CombConfigs ==
    { Cfg(s, b, l, g, FALSE, None) :
        s \in CombMacros, b \in 1 .. MaxBits, l \in 1 .. MaxLines, g \in {-1, 0, 1, 2, 3} }
    \cup { Cfg(OpenRam1rw1r(32, 9, 4), 17, 64, -1, FALSE, None) }

\* the memories whose hardware is run
HwConfigs ==
    { Cfg(NoSignals, 3, 3, -1, FALSE, None),
      Cfg(NoSignals, 3, 3, -1, TRUE, "other"),
      Cfg(OpenRam1rw1r(2, 1, 1), 3, 4, -1, TRUE, None),
      Cfg(OpenRam1rw1r(2, 1, 1), 3, 4, 1, FALSE, None),
      Cfg(Tsmc1p(2, 1, 2), 2, 4, -1, FALSE, None),
      Cfg(Tsmc1p(2, 1, 2), 2, 2, -1, FALSE, "other"),
      Cfg(Tsmc2p(2, 1, 2), 2, 4, -1, FALSE, None),
      Cfg(OpenRam1rw(2, 1, 0), 2, 3, -1, FALSE, None),
      Cfg(OpenRam1rw(2, 1, 0), 2, 3, 1, FALSE, None) }

\* data words driven on wr_data and handed to the write task
DataWords(n) == { AllOnes(n), { b \in AllOnes(n) : b % 2 = 0 } }

\* every address a port of addr_bits bits can carry
PortAddrs(p) == AllOnes(Pow2(p.addr_bits))

\* the write half and the read half of what a caller drives on a port
WrHalf(wr, a, d, m) == [wr |-> wr, wr_addr |-> a, wr_data |-> d, wr_in |-> m]
RdHalf(rd, a) == [rd |-> rd, rd_addr |-> a]

\* port n driven with the halves w and r, as far as the port has the pins
PortIn(p, n, w, r) ==
    LET w1 == IF CanWrite(p, n) THEN w ELSE WrHalf(FALSE, 0, {}, {})
        r1 == IF CanRead(p, n) THEN r ELSE RdHalf(FALSE, 0)
    IN [wr |-> w1.wr, wr_addr |-> w1.wr_addr, wr_data |-> w1.wr_data,
        wr_in |-> w1.wr_in, rd |-> r1.rd, rd_addr |-> r1.rd_addr]

\* values driven on the decode logic: every address with a full select, and
\* every select with one address
CombInputs(c, p) ==
    { <<WrHalf(w, a, AllOnes(c.bits), SelInputBits(c, p)),
        RdHalf(r, (a + 1) % Pow2(p.addr_bits))>> :
        a \in PortAddrs(p), w \in BOOLEAN, r \in BOOLEAN }
    \cup
    { <<WrHalf(TRUE, 0, AllOnes(c.bits), m), RdHalf(FALSE, 0)>> :
        m \in SUBSET SelInputBits(c, p) }

\* the addresses driven on the hardware: the first and the last line
HwAddrs(c) == {0, c.line_num - 1}

\* the data and select values a hardware write carries
WrPayloads(c, p) ==
    IF p.bit_sel = 0
    THEN { <<d, {}>> : d \in DataWords(c.bits) }
    ELSE { <<AllOnes(c.bits), {0}>>,
           <<{ b \in AllOnes(c.bits) : b % 2 = 0 }, SelInputBits(c, p)>>,
           <<AllOnes(c.bits), {}>> }

FullPayload(c, p) ==
    <<{ b \in AllOnes(c.bits) : b % 2 = 0 }, SelInputBits(c, p)>>

Writes(c, p, n, payloads) ==
    IF CanWrite(p, n)
    THEN { PortIn(p, n, WrHalf(TRUE, a, pl[1], pl[2]), RdHalf(FALSE, 0)) :
              a \in HwAddrs(c), pl \in payloads }
    ELSE {}

Reads(c, p, n) ==
    IF CanRead(p, n)
    THEN { PortIn(p, n, WrHalf(FALSE, 0, {}, {}), RdHalf(TRUE, a)) : a \in HwAddrs(c) }
    ELSE {}

\* the line next to line a
Neighbour(a) == IF a = 0 THEN 1 ELSE a - 1

\* a write and a read requested on the same port in the same cycle, the read
\* of the written line or of the line next to it
Both(c, p, n) ==
    IF CanWrite(p, n) /\ CanRead(p, n)
    THEN UNION { { PortIn(p, n, WrHalf(TRUE, a, FullPayload(c, p)[1], FullPayload(c, p)[2]),
                          RdHalf(TRUE, b)) : b \in {a, Neighbour(a)} } : a \in HwAddrs(c) }
    ELSE {}

\* what a caller drives on port n alone
Solo(c, p, n) ==
    {IdleIn} \cup Writes(c, p, n, WrPayloads(c, p)) \cup Reads(c, p, n) \cup Both(c, p, n)

\* what is driven on the ports at an edge that clocks the ports in T; a port
\* that is not clocked keeps what it had
Drives(c, p, T, i) ==
    IF T = {0} THEN { [i EXCEPT ![0] = a] : a \in Solo(c, p, 0) }
    ELSE IF T = {1} THEN { [i EXCEPT ![1] = b] : b \in Solo(c, p, 1) }
    ELSE { [i EXCEPT ![0] = a, ![1] = IdleIn] : a \in Solo(c, p, 0) }
         \cup { [i EXCEPT ![0] = IdleIn, ![1] = b] : b \in Solo(c, p, 1) }
         \cup { [i EXCEPT ![0] = a, ![1] = b] :
                   a \in Writes(c, p, 0, {FullPayload(c, p)}) \cup Reads(c, p, 0),
                   b \in Writes(c, p, 1, {FullPayload(c, p)}) \cup Reads(c, p, 1) }

(***************************************************************************)
(* The state machine.                                                      *)
(***************************************************************************)
NoTask == [name |-> "none", addr |-> 0, data |-> {}, error |-> FALSE]
NoRead == [rd |-> FALSE, addr |-> 0, line |-> {}]

\* the lines of a macro hold an unknown value at power-up (here: all zeros
\* or all ones); the flip-flop array is cleared by reset
InitFills(c) == IF c.has_sram THEN {"zeros", "ones"} ELSE {"zeros"}

\* the registers after reset, and nothing driven yet
PowerOn(c, p, fill) ==
    /\ io = [n \in Ports |-> IdleIn]
    /\ sig = [n \in Ports |-> comb(c, p, IdleIn)]
    /\ mem = [y \in Rows(p) |-> [x \in Banks(p) |->
                [a \in AllOnes(leaf_line_num(c, p)) |->
                    IF fill = "ones" THEN AllOnes(p.bits_per_bank) ELSE {}]]]
    /\ dout = [n \in Ports |-> [y \in Rows(p) |-> [x \in Banks(p) |-> {}]]]
    /\ rd_select = [n \in Ports |-> {}]
    /\ rd_valid_pre = [n \in Ports |-> FALSE]
    /\ mux_out = [n \in Ports |-> {}]
    /\ mux_valid = [n \in Ports |-> FALSE]
    /\ held = [n \in Ports |-> <<NoRead, NoRead>>]
    /\ edge = {}
    /\ tsk = NoTask
    /\ steps = 0

\* nothing is built yet: the hardware state is void
Unbuilt ==
    /\ io = <<>> /\ sig = <<>> /\ mem = <<>> /\ dout = <<>>
    /\ rd_select = <<>> /\ rd_valid_pre = <<>> /\ mux_out = <<>> /\ mux_valid = <<>>
    /\ held = <<>> /\ edge = {} /\ tsk = NoTask /\ steps = 0

hw_vars == <<io, sig, mem, dout, rd_select, rd_valid_pre, mux_out, mux_valid, held, edge,
             tsk, steps>>

\* g_mem.module is called with arguments cfg
InitPlan ==
    /\ cfg \in PlanConfigs
    /\ pc = "params"
    /\ plan = NoPlan
    /\ Unbuilt

\* g_mem.module: the build either stops at a fatal diagnostic or yields the plan
Module ==
    /\ pc = "params"
    /\ plan' = module(cfg)
    /\ pc' = IF module(cfg).fatal = {} THEN "built" ELSE "fatal"
    /\ UNCHANGED <<cfg, hw_vars>>

NextPlan == Module

SpecPlan == InitPlan /\ [][NextPlan]_vars

\* the decode logic of a generated memory, with values driven on its ports
InitComb ==
    /\ cfg \in { c \in CombConfigs : Accepted(c) }
    /\ pc = "driven"
    /\ plan = module(cfg)
    /\ \E i \in CombInputs(cfg, plan) :
          io = [n \in Ports |-> PortIn(plan, n, i[1], i[2])]
    /\ sig = <<>> /\ mem = <<>> /\ dout = <<>>
    /\ rd_select = <<>> /\ rd_valid_pre = <<>> /\ mux_out = <<>> /\ mux_valid = <<>>
    /\ held = <<>> /\ edge = {} /\ tsk = NoTask /\ steps = 0

\* the combinational signals settle on the driven values
Drive ==
    /\ pc = "driven"
    /\ sig' = [n \in Ports |-> comb(cfg, plan, io[n])]
    /\ pc' = "settled"
    /\ UNCHANGED <<cfg, plan, io, mem, dout, rd_select, rd_valid_pre, mux_out,
                   mux_valid, held, edge, tsk, steps>>

NextComb == Drive

SpecComb == InitComb /\ [][NextComb]_vars

\* a generated memory out of reset
Init ==
    /\ cfg \in { c \in HwConfigs : Accepted(c) }
    /\ pc = "built"
    /\ plan = module(cfg)
    /\ \E fill \in InitFills(cfg) : PowerOn(cfg, plan, fill)

\* the ports clocked together on one clock edge
ClockSets(p) == IF p.two_clocks THEN {{0}, {1}, {0, 1}} ELSE {Ports}

\* a macro read that meets a write of the same address by the other port can
\* return the line before or after the write
Hazards(c, in, T) ==
    IF c.has_sram /\ \E n \in T, m \in T :
                        n # m /\ in[n].wr /\ in[m].rd /\ in[n].wr_addr = in[m].rd_addr
    THEN {"old", "new"} ELSE {"old"}

\* the line of the flat memory a read request of port n addresses
held_line(c, p, m, i) ==
    IF i.rd /\ ~task_range_error(p, i.rd_addr) THEN task_read(c, p, m, i.rd_addr) ELSE {}

\* a function as the table of its values
Table(f) == f @@ <<>>

\* what every leaf sees on its ports when in is driven on the memory's ports
leaf_ins(c, p, in) ==
    Table([y \in Rows(p) |-> Table([x \in Banks(p) |->
        Table([n \in Ports |-> leaf_in(c, p, in[n], y, x)])])])

\* the registers after a clock edge that clocks the ports in T while in is
\* driven on the ports and ins is what the leaves see
Clocked(T, in, hz, ins) ==
    /\ io' = in
    /\ sig' = [n \in Ports |-> comb(cfg, plan, in[n])]
    /\ mem' = [y \in Rows(plan) |-> [x \in Banks(plan) |->
                  leaf_mem_next(cfg, plan, T, ins[y][x], mem[y][x])]]
    /\ dout' = [n \in Ports |-> [y \in Rows(plan) |-> [x \in Banks(plan) |->
                  leaf_dout_next(cfg, plan, T, n, ins[y][x], mem[y][x],
                                 dout[n][y][x], hz)]]]
    /\ rd_select' = [n \in Ports |->
                       IF n \in T /\ in[n].rd THEN rd_row_sel(plan, in[n])
                       ELSE rd_select[n]]
    /\ rd_valid_pre' = [n \in Ports |-> IF n \in T THEN in[n].rd ELSE rd_valid_pre[n]]
    /\ mux_out' = [n \in Ports |->
                     IF n \in T /\ cfg.sample_out /\ rd_valid_pre[n]
                     THEN mux_lines(plan, n, rd_select[n], dout)
                     ELSE mux_out[n]]
    /\ mux_valid' = [n \in Ports |->
                       IF n \in T /\ cfg.sample_out THEN rd_valid_pre[n]
                       ELSE mux_valid[n]]
    /\ held' = [n \in Ports |->
                  IF n \in T
                  THEN <<[rd |-> in[n].rd, addr |-> in[n].rd_addr,
                          line |-> held_line(cfg, plan, mem, in[n])], held[n][1]>>
                  ELSE held[n]]
    /\ edge' = T

\* One clock edge: the ports in T sample what is driven on them.
Edge ==
    /\ pc = "built"
    /\ steps < MaxSteps
    /\ \E T \in ClockSets(plan) :
       \E in \in Drives(cfg, plan, T, io) :
       \E hz \in Hazards(cfg, in, T) :
          Clocked(T, in, hz, leaf_ins(cfg, plan, in))
    /\ tsk' = NoTask
    /\ steps' = steps + 1
    /\ UNCHANGED <<cfg, pc, plan>>

\* addresses handed to the tasks: the first and the last line of the memory,
\* the last line of the padded memory, and the first address past it
TaskAddrs(c, p) == {0, c.line_num - 1, p.line_num_roundup - 1, p.line_num_roundup}

\* the top-level task write(addr, data)
TaskWrite ==
    /\ pc = "built"
    /\ steps < MaxSteps
    /\ \E addr \in TaskAddrs(cfg, plan), data \in DataWords(plan.bits_roundup) :
          /\ tsk' = [name |-> "write", addr |-> addr, data |-> data,
                     error |-> task_range_error(plan, addr)]
          /\ pc' = IF task_range_error(plan, addr) THEN "halted" ELSE "built"
          /\ mem' = IF task_range_error(plan, addr) THEN mem
                    ELSE task_write(cfg, plan, mem, addr, data)
    /\ edge' = {}
    /\ steps' = steps + 1
    /\ UNCHANGED <<cfg, plan, io, sig, dout, rd_select, rd_valid_pre, mux_out,
                   mux_valid, held>>

\* the top-level task read(addr, data)
TaskRead ==
    /\ pc = "built"
    /\ steps < MaxSteps
    /\ \E addr \in TaskAddrs(cfg, plan) :
          /\ tsk' = [name |-> "read", addr |-> addr,
                     data |-> IF task_range_error(plan, addr) THEN {}
                              ELSE task_read(cfg, plan, mem, addr),
                     error |-> task_range_error(plan, addr)]
          /\ pc' = IF task_range_error(plan, addr) THEN "halted" ELSE "built"
    /\ edge' = {}
    /\ steps' = steps + 1
    /\ UNCHANGED <<cfg, plan, io, sig, mem, dout, rd_select, rd_valid_pre, mux_out,
                   mux_valid, held>>

\* memory images read by $readmemh: every line all ones, or the even lines
\* all ones and the odd lines zero
Images(p) ==
    { [i \in AllOnes(file_lines(p)) |-> AllOnes(p.bits_roundup)],
      [i \in AllOnes(file_lines(p)) |-> IF i % 2 = 0 THEN AllOnes(p.bits_roundup) ELSE {}] }

\* the outcome r of write_file becomes the state
FileWritten(r) ==
    /\ tsk' = [name |-> "write_file", addr |-> Len(r.calls), data |-> {},
               error |-> r.error, calls |-> r.calls]
    /\ pc' = IF r.error THEN "halted" ELSE "built"
    /\ mem' = r.mem

\* the top-level task write_file(filename)
WriteFile ==
    /\ pc = "built"
    /\ steps < MaxSteps
    /\ \E image \in Images(plan) :
          FileWritten(write_file(cfg, plan, mem, image, 0, <<>>))
    /\ edge' = {}
    /\ steps' = steps + 1
    /\ UNCHANGED <<cfg, plan, io, sig, dout, rd_select, rd_valid_pre, mux_out,
                   mux_valid, held>>

Next == Edge \/ TaskWrite \/ TaskRead \/ WriteFile

Spec == Init /\ [][Next]_vars

\* the memories of the basic_mem test bench, run through their simulation
\* tasks only
TaskConfigs == { TbMain, TbLocal }

InitTask ==
    /\ cfg \in { c \in TaskConfigs : Accepted(c) }
    /\ pc = "built"
    /\ plan = module(cfg)
    /\ \E fill \in InitFills(cfg) : PowerOn(cfg, plan, fill)

NextTask == TaskWrite \/ TaskRead

SpecTask == InitTask /\ [][NextTask]_vars

(***************************************************************************)
(* Properties of the running memory (specification Spec).                  *)
(***************************************************************************)
\* the read latency of the memory
Latency == IF cfg.sample_out THEN 2 ELSE 1

\* line addr of the flat memory, as wide as the memory's data ports
Line(m, addr) == Slice(task_read(cfg, plan, m, addr), 0, cfg.bits)

\* C1 as stated: a read request of a read-capable port for an address in
\* [0, line_num) presents on rd_data, Latency cycles of the port later, the
\* content the line held in the cycle of the request.
C1_ReadData ==
    \A n \in Ports :
        (/\ CanRead(plan, n)
         /\ held[n][Latency].rd
         /\ held[n][Latency].addr < cfg.line_num) =>
            rd_data(cfg, plan, n, rd_select, dout, mux_out)
                = Slice(held[n][Latency].line, 0, cfg.bits)

\* a read requested on a combined read/write port of a Convention A macro
\* together with a write to another line of the same row: one cycle later
\* rd_data is not what the line read held but what the line written holds
C1_Witness ==
    /\ plan.conv = "openram"
    /\ plan.port_type[0] = "w/r"
    /\ ~cfg.sample_out
    /\ 0 \in edge
    /\ io[0].wr /\ io[0].rd
    /\ io[0].rd_addr # io[0].wr_addr
    /\ io[0].rd_addr < cfg.line_num
    /\ held[0][1].rd
    /\ rd_data(cfg, plan, 0, rd_select, dout, mux_out) # Slice(held[0][1].line, 0, cfg.bits)
    /\ rd_data(cfg, plan, 0, rd_select, dout, mux_out) = Line(mem, io[0].wr_addr)

\* the step is a call of the write task
IsTaskWrite == tsk'.name = "write" /\ steps' = steps + 1

\* the step is a call of the read task right after a call of the write task
\* with the same address
IsReadBack ==
    /\ tsk.name = "write" /\ ~tsk.error
    /\ tsk'.name = "read" /\ steps' = steps + 1
    /\ tsk'.addr = tsk.addr

\* C2: for every address A in [0, line_num) and every data word D, the task
\* call write(A, D) raises no error and changes no line but line A of row
\* floor(A / lines_per_row), and a following read(A) returns D.
C2_RoundTrip ==
    [][ /\ (IsTaskWrite /\ tsk'.addr < cfg.line_num) =>
              /\ ~tsk'.error
              /\ \A y \in Rows(plan), x \in Banks(plan) : \A l \in DOMAIN mem[y][x] :
                    (y # tsk'.addr \div plan.lines_per_row
                       \/ l # tsk'.addr % plan.lines_per_row) =>
                        mem'[y][x][l] = mem[y][x][l]
        /\ (IsReadBack /\ tsk.addr < cfg.line_num) =>
              /\ ~tsk'.error
              /\ tsk'.data = tsk.data ]_vars

\* the read task returns the word the write task stored in the last line of a
\* memory of several rows and banks
C2_Witness ==
    /\ tsk.name = "read"
    /\ ~tsk.error
    /\ plan.row_num > 1
    /\ plan.bank_num > 1
    /\ tsk.addr = cfg.line_num - 1
    /\ tsk.data = { b \in AllOnes(plan.bits_roundup) : b % 2 = 0 }

\* C3 as stated: a hardware write with select mask M to line A of a memory
\* of granularity >= 1 leaves in line A the written data in the bits of the
\* granules M selects and the prior value in every other bit.
C3_MaskedWrite ==
    [][ \A n \in edge' :
          (/\ plan.bit_sel >= 1
           /\ CanWrite(plan, n)
           /\ io'[n].wr
           /\ io'[n].wr_addr < cfg.line_num) =>
              Line(mem', io'[n].wr_addr)
                  = (sig'[n].wr_sel \cap io'[n].wr_data)
                      \cup (Line(mem, io'[n].wr_addr) \ sig'[n].wr_sel) ]_vars

\* a macro without a write-mask pin, generated with bit_sel = 1: the first
\* write, with all-ones data and only bit 0 selected, to a zeroed memory
\* leaves bit 1 of the line set as well
C3_Witness ==
    /\ cfg.has_sram
    /\ plan.sram.bit_sel = 0
    /\ plan.bit_sel = 1
    /\ steps = 1
    /\ edge = Ports
    /\ io[0].wr /\ ~io[0].rd
    /\ io[0].wr_addr = 0
    /\ io[0].wr_in = {0}
    /\ io[0].wr_data = AllOnes(cfg.bits)
    /\ Line(mem, cfg.line_num - 1) = {}
    /\ 1 \in Line(mem, 0)

IsTaskCall == tsk'.name \in {"write", "read"} /\ steps' = steps + 1

\* C13 as stated: the tasks check the address against the requested
\* line_num: a call with addr >= line_num raises the fatal error and neither
\* writes nor reads a line, a call with addr < line_num raises no error.
C13_RangeCheck ==
    [][ IsTaskCall =>
          /\ tsk'.error <=> (tsk'.addr >= cfg.line_num)
          /\ (tsk'.addr >= cfg.line_num) =>
                /\ mem' = mem
                /\ tsk'.data = (IF tsk'.name = "read" THEN {} ELSE tsk'.data)
                /\ pc' = "halted" ]_vars

\* the write task stores a word at an address between line_num and the
\* padded depth without an error
C13_Witness ==
    /\ tsk.name = "write"
    /\ tsk.addr >= cfg.line_num
    /\ tsk.addr < plan.line_num_roundup
    /\ ~tsk.error
    /\ pc = "built"
    /\ steps = 1
    /\ tsk.data = AllOnes(plan.bits_roundup)
    /\ task_read(cfg, plan, mem, tsk.addr) = tsk.data
    /\ task_read(cfg, plan, mem, 0) = {}

\* the step is a clock edge on which port n does a hardware write, with every
\* bit selected and no read requested on the port, to an in-range address
IsHwWrite(n) ==
    /\ n \in edge' /\ CanWrite(plan, n)
    /\ io'[n].wr /\ ~io'[n].rd
    /\ io'[n].wr_addr < cfg.line_num
    /\ sig'[n].wr_sel = AllOnes(cfg.bits)

\* the step is a clock edge on which port n requests a hardware read, and no
\* write, of the in-range address the write task was called with just before
IsHwReadOfTask(n) ==
    /\ tsk.name = "write" /\ ~tsk.error /\ tsk.addr < cfg.line_num
    /\ edge' = {n} /\ CanRead(plan, n)
    /\ io'[n].rd /\ ~io'[n].wr
    /\ io'[n].rd_addr = tsk.addr
    /\ ~cfg.sample_out

\* C14 as stated: the tasks dispatch by the row-select field of the decode,
\* so that the task read returns what a hardware write stored and a hardware
\* read returns what the task write stored.
C14_SameDispatch ==
    [][ \A n \in Ports :
          /\ IsHwWrite(n) =>
                /\ task_rows(plan, io'[n].wr_addr) = sig'[n].wr_row_sel
                /\ Line(mem', io'[n].wr_addr) = io'[n].wr_data
          /\ IsHwReadOfTask(n) =>
                /\ task_rows(plan, tsk.addr) = sig'[n].rd_row_sel
                /\ rd_data(cfg, plan, n, rd_select', dout', mux_out')
                      = Slice(tsk.data, 0, cfg.bits) ]_vars

\* a split-port macro: the write task filled line 0 of a zeroed memory, the
\* read port then requested line 0 and rd_data does not show the line
C14_Witness ==
    /\ plan.conv = "tsmc_2p"
    /\ steps = 2
    /\ edge = {1}
    /\ io[1].rd /\ io[1].rd_addr = 0
    /\ rd_valid(cfg, 1, rd_valid_pre, mux_valid)
    /\ Line(mem, cfg.line_num - 1) = {}
    /\ Line(mem, 0) = AllOnes(cfg.bits)
    /\ rd_data(cfg, plan, 1, rd_select, dout, mux_out) # Line(mem, 0)

\* the pins of port n of the macro of bank x of row y, as the last edge
\* drove them
Pins(n, y, x) == get_lib_conn(plan, n, leaf_in(cfg, plan, io[n], y, x))

\* the write enable of port n, and its chip select where the macro has one,
\* are low
WriteEnabled(n, y, x) ==
    /\ ~Pins(n, y, x).web
    /\ plan.has_pin[n]["csb"] => ~Pins(n, y, x).csb

\* C16 as stated: on every write-capable port of a macro of any convention,
\* in a cycle without a read request on the port, the write enable (with the
\* chip select, where present) is low, and the macro writes, exactly when
\* the wr input of the wrapper is asserted.
C16_WriteEnable ==
    \A n \in edge :
        (cfg.has_sram /\ CanWrite(plan, n) /\ ~io[n].rd) =>
            \A y \in Rows(plan), x \in Banks(plan) :
                /\ WriteEnabled(n, y, x) <=> leaf_in(cfg, plan, io[n], y, x).wr
                /\ macro_writes(plan, n, Pins(n, y, x))
                      <=> leaf_in(cfg, plan, io[n], y, x).wr

\* a split-port macro with wr asserted on the write port: WEB is high and
\* the selected leaf has not stored the data
C16_Witness ==
    /\ plan.conv = "tsmc_2p"
    /\ 0 \in edge
    /\ io[0].wr /\ io[0].wr_addr = 0
    /\ sig[0].wr_sel = AllOnes(cfg.bits)
    /\ io[0].wr_data # {}
    /\ Pins(0, 0, 0).web
    /\ ~macro_writes(plan, 0, Pins(0, 0, 0))
    /\ Line(mem, 0) = {}

\* granule g of what port n of the leaf sees on wr_sel has a bit selected
GranuleSelected(n, y, x, g) ==
    Slice(leaf_in(cfg, plan, io[n], y, x).wr_sel,
          plan.sram.bit_sel * g, plan.sram.bit_sel) # {}

\* C17 as stated: on every convention with a write-mask pin, the bit of a
\* granule on the mask pin is 0 exactly when some bit of the granule is
\* selected for writing.
C17_MaskInverted ==
    \A n \in edge :
        (cfg.has_sram /\ CanWrite(plan, n) /\ plan.has_pin[n]["wsel"]) =>
            \A y \in Rows(plan), x \in Banks(plan) : \A g \in Granules(plan) :
                (g \notin Pins(n, y, x).wsel) <=> GranuleSelected(n, y, x, g)

\* a split-port macro with one-bit granules written with only bit 0
\* selected: bit 0 of BWEB is 1 and bit 1 is 0
C17_Witness ==
    /\ plan.conv = "tsmc_2p"
    /\ plan.sram.bit_sel = 1
    /\ 0 \in edge
    /\ io[0].wr
    /\ io[0].wr_in = {0}
    /\ GranuleSelected(0, 0, 0, 0)
    /\ Pins(0, 0, 0).wsel = {0}

\* C15 as stated: write_file ends after exactly one write call per address,
\* in ascending order, for the addresses 0 .. line_num-1 of the requested
\* memory and no other, and no call raises the range error.
C15_WriteFile ==
    (tsk.name = "write_file") =>
        /\ tsk.calls = [i \in 1 .. cfg.line_num |-> i - 1]
        /\ ~tsk.error

\* write_file on a memory of three lines built of two-line macros calls
\* write for the addresses 0, 1, 2 and 3 and fills line 3
C15_Witness ==
    /\ tsk.name = "write_file"
    /\ ~tsk.error
    /\ cfg.line_num = 3
    /\ tsk.calls = <<0, 1, 2, 3>>
    /\ steps = 1
    /\ task_read(cfg, plan, mem, 3) = AllOnes(plan.bits_roundup)
    /\ task_read(cfg, plan, mem, 0) = AllOnes(plan.bits_roundup)

\* the step is a clock edge
IsEdge == tsk'.name = "none" /\ steps' = steps + 1

\* port n, clocked by the step, requests a write that reaches line l of bank
\* x of row y
WriteReaches(n, y, x, l) ==
    /\ n \in edge' /\ CanWrite(plan, n)
    /\ io'[n].wr
    /\ y \in sig'[n].wr_row_sel
    /\ x \in sig'[n].bank_wr_sel
    /\ l = io'[n].wr_addr % plan.lines_per_row

\* C22 as stated: over a clock edge a line of a leaf changes only if a port
\* requests a write whose row-select bit is set for the leaf's row, whose
\* mask slice for the leaf's bank is not zero and whose intra-row address is
\* the line; every other line keeps its content, and a cycle with read
\* requests only changes no line.
C22_Frame ==
    [][ IsEdge =>
          \A y \in Rows(plan), x \in Banks(plan) : \A l \in DOMAIN mem[y][x] :
              (mem'[y][x][l] # mem[y][x][l]) =>
                  \E n \in Ports : WriteReaches(n, y, x, l) ]_vars

\* a split-port macro that powered up with all ones: after one clk0 edge
\* with nothing requested line 0 is cleared, in a row wr_addr does not select
\* as well
C22_Witness ==
    /\ plan.conv = "tsmc_2p"
    /\ plan.row_num > 1
    /\ steps = 1
    /\ edge = {0}
    /\ io[0] = IdleIn /\ io[1] = IdleIn
    /\ mem[plan.row_num - 1][0][0] = {}
    /\ mem[plan.row_num - 1][0][1] = AllOnes(plan.bits_per_bank)

\* C23: in every reachable state, the reset state and the cycles without a
\* read request included, the registered row selector rd_select of every
\* port has at most one bit set, and only bits of existing rows, so the
\* multiplexer's 'decoded selector must be hotone' assertion holds.
C23_SelectorHotone ==
    \A n \in Ports :
        /\ is_hotone(rd_select[n])
        /\ rd_select[n] \subseteq Rows(plan)

\* a port that read from the last row two cycles ago and requests nothing
\* now still selects that row alone
C23_Witness ==
    /\ plan.row_num > 1
    /\ \E n \in Ports :
          /\ CanRead(plan, n)
          /\ n \in edge
          /\ ~io[n].rd
          /\ held[n][2].rd
          /\ ~held[n][1].rd
          /\ rd_select[n] = {plan.row_num - 1}

\* the registers of the read path of port n
ReadRegs(n, d, s, v, mo, mv) == <<d[n], s[n], v[n], mo[n], mv[n]>>

\* C24 as stated: the clock edges of the two ports come in any order; a
\* stored line changes only on an edge of the clock of a port that issues a
\* write; the read-data, row-selector and read-valid registers of port n
\* change only on an edge of port n's clock; a memory whose macro has no
\* second clock pin has one clock, which clocks every port.
C24_ClockDomains ==
    [][ IsEdge =>
          /\ (mem' # mem) => \E n \in edge' : CanWrite(plan, n) /\ io'[n].wr
          /\ \A n \in Ports \ edge' :
                ReadRegs(n, dout', rd_select', rd_valid_pre', mux_out', mux_valid')
                    = ReadRegs(n, dout, rd_select, rd_valid_pre, mux_out, mux_valid)
          /\ (cfg.has_sram /\ ~plan.sram.dual_clk) => ~plan.two_clocks
          /\ ~plan.two_clocks => edge' = Ports ]_vars

\* a split-port macro that powered up with all ones: the read port requested
\* a read on an edge of clk1 alone, then an edge of clk0 alone with no write
\* requested cleared line 0
C24_Witness ==
    /\ plan.conv = "tsmc_2p"
    /\ plan.two_clocks
    /\ steps = 2
    /\ edge = {0}
    /\ io[0] = IdleIn
    /\ held[1][1].rd
    /\ rd_valid_pre[1]
    /\ mem[0][0][0] = {}
    /\ mem[0][0][1] = AllOnes(plan.bits_per_bank)

\* C27 as stated: on every write-capable port, a cycle with wr asserted, an
\* in-range address and a non-zero write mask leaves the written data in the
\* selected bits of the addressed line, also when rd is asserted on the same
\* port in that cycle.
C27_NoDroppedWrite ==
    [][ IsEdge =>
          \A n \in edge' :
              (/\ CanWrite(plan, n)
               /\ io'[n].wr
               /\ io'[n].wr_addr < cfg.line_num
               /\ sig'[n].wr_sel # {}) =>
                  Line(mem', io'[n].wr_addr) \cap sig'[n].wr_sel
                      = io'[n].wr_data \cap sig'[n].wr_sel ]_vars

\* a combined read/write port of a Convention A macro with wr and rd
\* asserted together: the addressed line of the zeroed memory is still zero
C27_Witness ==
    /\ plan.conv = "openram"
    /\ plan.port_type[0] = "w/r"
    /\ steps = 1
    /\ 0 \in edge
    /\ io[0].wr /\ io[0].rd
    /\ io[0].wr_addr = 0
    /\ sig[0].wr_sel = AllOnes(cfg.bits)
    /\ 0 \in io[0].wr_data
    /\ Pins(0, 0, 0).web /\ ~Pins(0, 0, 0).csb
    /\ Line(mem, 0) = {}

\* C29: the direction assertions of the leaf wrapper never fire through
\* the memory: a port whose capability has no 'w' has its write enable at 0
\* at the memory and at every leaf of every row and bank, a port whose
\* capability has no 'r' its read enable; the flip-flop fallback writes on
\* port 0 and reads on port 1 only.
C29_DirectionAsserts ==
    \A n \in Ports :
        /\ plan.port_type[n] \notin {"w", "w/r"} => ~io[n].wr
        /\ plan.port_type[n] \notin {"r", "w/r"} => ~io[n].rd
        /\ ~cfg.has_sram => plan.port_type = (0 :> "w" @@ 1 :> "r")
        /\ \A y \in Rows(plan), x \in Banks(plan) :
              leaf_asserts(plan, n, leaf_in(cfg, plan, io[n], y, x)) = {}

\* a write on the write-only port and a read on the read-only port of
\* a memory of two rows on the same edge: the selected leaf sees both, and
\* neither in the other direction
C29_Witness ==
    /\ plan.port_type = (0 :> "w" @@ 1 :> "r")
    /\ plan.row_num > 1
    /\ edge = Ports
    /\ io[0].wr /\ io[1].rd
    /\ io[0].wr_addr = cfg.line_num - 1
    /\ io[1].rd_addr = cfg.line_num - 1
    /\ leaf_in(cfg, plan, io[0], plan.row_num - 1, 0).wr
    /\ leaf_in(cfg, plan, io[1], plan.row_num - 1, 0).rd
    /\ ~leaf_in(cfg, plan, io[1], plan.row_num - 1, 0).wr
    /\ ~leaf_in(cfg, plan, io[0], plan.row_num - 1, 0).rd

(***************************************************************************)
(* Properties of the test bench's memories (specification SpecTask).       *)
(***************************************************************************)
\* C11: for bits = 64, line_num = 4096 and the 32 x 512 macro the plan has
\* bank_num = 2, row_num = 8, lines_per_row = 512, sram_addr_bits = 9 and
\* row_sel_bits = 3; address 0x0FFF selects row 7 and no other row, in the
\* decode and in the task dispatch; a task read of address 4096 ends in the
\* out-of-range error.
C11_MainMemory ==
    (cfg = TbMain) =>
        /\ pc \in {"built", "halted"}
        /\ plan.bank_num = 2
        /\ plan.row_num = 8
        /\ plan.lines_per_row = 512
        /\ plan.sram_addr_bits = 9
        /\ plan.row_sel_bits = 3
        /\ row_sel(plan, 4095) = {7}
        /\ (tsk.name \in {"write", "read"} /\ tsk.addr = 4095) =>
              /\ ~tsk.error
              /\ task_rows(plan, tsk.addr) = {7}
        /\ (tsk.name = "read" /\ tsk.addr = 4096) =>
              /\ tsk.error
              /\ pc = "halted"

\* the read task called with address 4096 on the main memory, after a write
\* to address 0x0FFF that went to row 7
C11_Witness ==
    /\ cfg = TbMain
    /\ tsk.name = "read"
    /\ tsk.addr = 4096
    /\ tsk.error
    /\ mem[7][0][511] # mem[6][0][511]

(***************************************************************************)
(* Properties of the tiling plan (specification SpecPlan).                 *)
(***************************************************************************)
\* C10: for every accepted input the plan satisfies bank_num * bits_per_bank
\* = bits_roundup >= bits and row_num * lines_per_row = line_num_roundup >=
\* line_num; with a macro, bits_per_bank is the macro width, lines_per_row the
\* macro depth, and the rounded sizes are the least multiples of macro width
\* and depth that cover bits and line_num.
C10_TilingPlan ==
    (pc = "built") =>
        /\ plan.bank_num * plan.bits_per_bank = plan.bits_roundup
        /\ plan.bits_roundup >= cfg.bits
        /\ plan.row_num * plan.lines_per_row = plan.line_num_roundup
        /\ plan.line_num_roundup >= cfg.line_num
        /\ cfg.has_sram =>
              /\ plan.bits_per_bank = cfg.signals[get_lib_names(cfg.signals)[0].din]
              /\ plan.lines_per_row = Pow2(cfg.signals[get_lib_names(cfg.signals)[0].addr])
              /\ plan.bits_roundup % plan.bits_per_bank = 0
              /\ plan.bits_roundup - plan.bits_per_bank < cfg.bits
              /\ plan.line_num_roundup % plan.lines_per_row = 0
              /\ plan.line_num_roundup - plan.lines_per_row < cfg.line_num

\* a macro-backed memory is planned with several banks and rows, an exact
\* multiple in one dimension and padding in the other
C10_Witness ==
    /\ pc = "built"
    /\ cfg.has_sram
    /\ plan.bank_num > 1
    /\ plan.row_num > 1
    /\ plan.bits_roundup = cfg.bits
    /\ plan.line_num_roundup > cfg.line_num

\* the flip-flop fallback, generated
Fallback == pc = "built" /\ ~cfg.has_sram

\* C12 (as the code has it): with no macro, every bits > 0 and line_num > 1
\* with granularity unset is generated, with bank_num = row_num = 1,
\* bits_roundup = bits, line_num_roundup = line_num and granularity 1; the
\* register array has bits bits a line and 2^ceil(log2(line_num)) lines,
\* which is line_num exactly when line_num is a power of two (64 x 17 for
\* the local memory of the test bench).
C12_Fallback ==
    /\ (pc # "params" /\ ~cfg.has_sram /\ cfg.bits > 0 /\ cfg.line_num > 1
            /\ cfg.bit_sel = -1) => pc = "built"
    /\ Fallback =>
          /\ plan.bank_num = 1 /\ plan.row_num = 1
          /\ plan.bits_roundup = cfg.bits
          /\ plan.line_num_roundup = cfg.line_num
          /\ cfg.bit_sel = -1 => plan.bit_sel = 1
          /\ plan.bits_per_bank = cfg.bits
          /\ leaf_line_num(cfg, plan) = Pow2(log2(cfg.line_num))
          /\ leaf_line_num(cfg, plan) >= cfg.line_num
          /\ (leaf_line_num(cfg, plan) = cfg.line_num) <=> is_pow2(cfg.line_num)
          /\ cfg = TbLocal => (leaf_line_num(cfg, plan) = 64 /\ plan.bits_per_bank = 17)

\* C12 as stated: the register array of the fallback has exactly line_num
\* lines of bits bits.
C12_ExactLines ==
    Fallback =>
        /\ plan.bank_num = 1 /\ plan.row_num = 1
        /\ plan.bits_roundup = cfg.bits
        /\ plan.line_num_roundup = cfg.line_num
        /\ cfg.bit_sel = -1 => plan.bit_sel = 1
        /\ plan.bits_per_bank = cfg.bits
        /\ leaf_line_num(cfg, plan) = cfg.line_num

\* a fallback memory of five lines gets a register array of eight
C12_Witness ==
    /\ Fallback
    /\ cfg.bit_sel = -1
    /\ cfg.line_num = 5
    /\ leaf_line_num(cfg, plan) = 8

\* the macro of the memory declares the pin that role of port n maps to
Declares(role, n) ==
    /\ get_lib_names(cfg.signals)[n][role] # None
    /\ get_lib_names(cfg.signals)[n][role] \in DOMAIN cfg.signals

\* C18 (as the code has it): a port of a macro is "w/r" if both its chip
\* select and its write enable map to declared pins; if exactly one of them
\* does, it is "w" when its data_in pin is declared and "r" otherwise,
\* whether or not data_out is declared; if neither does, the port is ""
\* whatever data pins the macro declares.
C18_PortType ==
    (pc = "built" /\ cfg.has_sram) =>
        \A n \in Ports :
            plan.port_type[n] =
                IF Declares("csb", n) /\ Declares("web", n) THEN "w/r"
                ELSE IF ~Declares("csb", n) /\ ~Declares("web", n) THEN ""
                ELSE IF Declares("din", n) THEN "w"
                ELSE "r"

\* C18 as stated: "w/r" with both controls; otherwise "w" if data_in is
\* declared, "r" if only data_out is, "" otherwise.
C18_ByDataPins ==
    (pc = "built" /\ cfg.has_sram) =>
        \A n \in Ports :
            plan.port_type[n] =
                IF Declares("csb", n) /\ Declares("web", n) THEN "w/r"
                ELSE IF Declares("din", n) THEN "w"
                ELSE IF Declares("dout", n) THEN "r"
                ELSE ""

\* a Convention A macro with din0 and dout0 but neither csb0 nor web0: port
\* 0 is absent; its port 1 has csb1 and no data pin at all and is "r"
C18_Witness ==
    /\ pc = "built"
    /\ cfg.has_sram
    /\ Declares("din", 0) /\ Declares("dout", 0)
    /\ ~Declares("csb", 0) /\ ~Declares("web", 0)
    /\ plan.port_type[0] = ""
    /\ Declares("csb", 1) /\ ~Declares("din", 1) /\ ~Declares("dout", 1)
    /\ plan.port_type[1] = "r"

\* what the macro of the memory declares
HasPins(names) == names \subseteq DOMAIN cfg.signals

\* the build ended in the unrecognized-pinout error, without a binding
PinoutFatal == pc = "fatal" /\ plan.fatal = {"pinout"} /\ "conv" \notin DOMAIN plan

\* the macro is bound by convention conv and its name map
BoundBy(conv, names) ==
    /\ ~PinoutFatal
    /\ Convention(cfg.signals) = conv
    /\ get_lib_names(cfg.signals) = names
    /\ pc = "built" => plan.conv = conv

\* C19 (as the code has it): a macro with din0 and addr0 is bound by
\* Convention A; otherwise a macro with D and Q is bound by Convention B,
\* split if it also has AA and CLKW and combined if not; every other macro,
\* one with AA and CLKW but without D or Q included, ends in the
\* unrecognized-pinout error and gets no binding.
C19_Detection ==
    (pc # "params" /\ cfg.has_sram) =>
        IF HasPins({"din0", "addr0"}) THEN BoundBy("openram", OpenRamNames)
        ELSE IF HasPins({"D", "Q"})
             THEN IF HasPins({"AA", "CLKW"}) THEN BoundBy("tsmc_2p", Tsmc2pNames)
                  ELSE BoundBy("tsmc_1p", Tsmc1pNames)
        ELSE PinoutFatal

\* C19 as stated: Convention A is din0 and addr0, Convention B split is AA
\* and CLKW, Convention B combined is D and Q without the split pins; a
\* macro matching none is fatal, a macro matching one convention only is
\* bound by it.
C19_StrictMatcher ==
    (pc # "params" /\ cfg.has_sram) =>
        /\ (~HasPins({"din0", "addr0"}) /\ ~HasPins({"AA", "CLKW"}) /\ ~HasPins({"D", "Q"}))
              => PinoutFatal
        /\ (HasPins({"din0", "addr0"}) /\ ~HasPins({"AA", "CLKW"}) /\ ~HasPins({"D", "Q"}))
              => BoundBy("openram", OpenRamNames)
        /\ (~HasPins({"din0", "addr0"}) /\ HasPins({"AA", "CLKW"}))
              => BoundBy("tsmc_2p", Tsmc2pNames)
        /\ (~HasPins({"din0", "addr0"}) /\ ~HasPins({"AA", "CLKW"}) /\ HasPins({"D", "Q"}))
              => BoundBy("tsmc_1p", Tsmc1pNames)

\* a macro with the split pins AA and CLKW but no D is not recognized
C19_Witness ==
    /\ cfg.has_sram
    /\ HasPins({"AA", "CLKW", "Q"})
    /\ ~HasPins({"D"})
    /\ ~HasPins({"din0"})
    /\ PinoutFatal

\* g_mem.module got as far as the tiling plan
Planned == pc # "params" /\ "row_num" \in DOMAIN plan

\* C20: a plan with row_num > 1 and a lines_per_row that is not a power of
\* two, and a plan with a granularity > 1 that does not divide bits_roundup
\* or bits_per_bank, end in a fatal build error: no memory is generated.
C20_FatalChecks ==
    Planned =>
        /\ (plan.row_num > 1 /\ ~is_pow2(plan.lines_per_row)) =>
              (pc = "fatal" /\ "row_pow2" \in plan.fatal)
        /\ (plan.bit_sel > 1 /\ plan.bits_roundup % plan.bit_sel # 0) =>
              (pc = "fatal" /\ "bit_sel_bits" \in plan.fatal)
        /\ (plan.bit_sel > 1 /\ plan.bits_per_bank % plan.bit_sel # 0) =>
              (pc = "fatal" /\ "bit_sel_bank" \in plan.fatal)
        /\ (pc = "fatal") => Unbuilt

\* a macro memory whose width the granularity divides while the macro's
\* width it does not: the build is fatal on the bank check alone
C20_Witness ==
    /\ Planned
    /\ cfg.has_sram
    /\ plan.bit_sel > 1
    /\ plan.bits_roundup % plan.bit_sel = 0
    /\ plan.bits_per_bank % plan.bit_sel # 0
    /\ pc = "fatal"
    /\ plan.fatal = {"bit_sel_bank"}

\* the least number of parts of size b that cover a
CeilDiv(a, b) == (a + b - 1) \div b

\* the width and the depth of the macro, from its data-in and address pins
MacroBits == cfg.signals[get_lib_names(cfg.signals)[0].din]
MacroLines == Pow2(cfg.signals[get_lib_names(cfg.signals)[0].addr])

\* the granularity divides the padded width and the width of a bank
GranularityFits ==
    plan.bit_sel > 1 =>
        (plan.bits_roundup % plan.bit_sel = 0 /\ plan.bits_per_bank % plan.bit_sel = 0)

\* C21: overrunning a soft ceiling (bank_num > 128, row_num > 128, bits >
\* 8192, line_num > 1048576, bits_per_bank > 8192, lines_per_row > 65536)
\* or asking for fewer lines than the macro has records a warning and does
\* not stop the build: the memory is generated with the plan the formulas
\* give, and with row_num = 1 when line_num is below the macro depth.
C21_SoftCeilings ==
    Planned =>
        /\ plan.warnings =
              { w \in {"line_num_lt_ram", "bank_num", "row_num", "bits", "line_num",
                       "bits_per_bank", "lines_per_row"} :
                  \/ w = "line_num_lt_ram" /\ cfg.has_sram /\ cfg.line_num < MacroLines
                  \/ w = "bank_num" /\ plan.bank_num > 128
                  \/ w = "row_num" /\ plan.row_num > 128
                  \/ w = "bits" /\ cfg.bits > 8192
                  \/ w = "line_num" /\ cfg.line_num > 1048576
                  \/ w = "bits_per_bank" /\ plan.bits_per_bank > 8192
                  \/ w = "lines_per_row" /\ plan.lines_per_row > 65536 }
        /\ GranularityFits => (pc = "built" /\ plan.fatal = {})
        /\ IF cfg.has_sram
           THEN /\ plan.bank_num = CeilDiv(cfg.bits, MacroBits)
                /\ plan.row_num = CeilDiv(cfg.line_num, MacroLines)
                /\ plan.bits_per_bank = MacroBits
                /\ plan.lines_per_row = MacroLines
                /\ plan.bits_roundup = plan.bank_num * MacroBits
                /\ plan.line_num_roundup = plan.row_num * MacroLines
                /\ cfg.line_num < MacroLines => plan.row_num = 1
           ELSE /\ plan.bank_num = 1 /\ plan.row_num = 1
                /\ plan.bits_roundup = cfg.bits
                /\ plan.line_num_roundup = cfg.line_num

\* a memory of four lines on a macro of 2^17 lines is generated, as one
\* row, with the under-use and the lines_per_row warnings
C21_Witness ==
    /\ pc = "built"
    /\ cfg.has_sram
    /\ cfg.line_num = 4
    /\ plan.lines_per_row = 131072
    /\ plan.row_num = 1
    /\ plan.warnings = {"line_num_lt_ram", "lines_per_row"}

\* C25 as stated: the read multiplexer is asked for a decoded selector,
\* row_num inputs of bits_roundup bits, the output register iff sample_out
\* and the valid passthrough, and every parameter g_mem names in the call
\* and every port it binds is one the multiplexer generator declares.
C25_MuxBinding ==
    (pc = "built") =>
        /\ mux_call(cfg, plan).num = plan.row_num
        /\ mux_call(cfg, plan).bits = plan.bits_roundup
        /\ ~mux_call(cfg, plan).encode
        /\ mux_call(cfg, plan).sample = cfg.sample_out
        /\ DOMAIN mux_call(cfg, plan) \subseteq DOMAIN mux_params
        /\ mux_args(mux_call(cfg, plan)).valid
        /\ mux_bound(cfg, plan) \subseteq mux_ports(mux_args(mux_call(cfg, plan)))

\* the main memory of the test bench: the call names has_valid, which is no
\* parameter of the multiplexer, and binds valid, valid_out and din[0..7],
\* none of which the multiplexer then declares
C25_Witness ==
    /\ cfg = TbMain
    /\ pc = "built"
    /\ DOMAIN mux_call(cfg, plan) \ DOMAIN mux_params = {"has_valid"}
    /\ mux_bound(cfg, plan) \ mux_ports(mux_args(mux_call(cfg, plan)))
          = {<<"valid", -1>>, <<"valid_out", -1>>} \cup { <<"din", y>> : y \in 0 .. 7 }
    /\ { <<"in", y>> : y \in 0 .. 7 } \subseteq mux_ports(mux_args(mux_call(cfg, plan)))

\* external addresses of the memory: the first lines, the last line and the
\* largest value the address port carries
AddrSamples ==
    { a \in 0 .. (4 * MaxLines) : a < Pow2(plan.addr_bits) }
    \cup {cfg.line_num - 1, Pow2(plan.addr_bits) - 1}

\* C26: an accepted configuration with row_num > 1 has addr_bits =
\* sram_addr_bits + row_sel_bits and sram_addr_bits = log2(lines_per_row), so
\* every external address is the row address in the low sram_addr_bits bits
\* and the row-select field in the bits above, with no bit left over; with
\* row_num = 1, addr_bits <= sram_addr_bits and the rows get the address
\* whole (zero-extended).
C26_AddressFields ==
    (pc = "built") =>
        /\ plan.row_num > 1 =>
              /\ plan.addr_bits = plan.sram_addr_bits + plan.row_sel_bits
              /\ plan.sram_addr_bits = log2(plan.lines_per_row)
              /\ Pow2(plan.sram_addr_bits) = plan.lines_per_row
              /\ \A a \in AddrSamples :
                    /\ a = row_addr(plan, a)
                            + plan.lines_per_row
                                * Field(a, plan.sram_addr_bits, plan.row_sel_bits)
                    /\ row_addr(plan, a) < plan.lines_per_row
        /\ plan.row_num = 1 =>
              /\ plan.addr_bits <= plan.sram_addr_bits
              /\ \A a \in AddrSamples : row_addr(plan, a) = a

\* five rows of two lines for nine lines: one address bit for the line,
\* three for the row
C26_Witness ==
    /\ pc = "built"
    /\ cfg.line_num = 9
    /\ plan.row_num = 5
    /\ plan.addr_bits = 4
    /\ plan.sram_addr_bits = 1
    /\ plan.row_sel_bits = 3
    /\ row_addr(plan, 8) = 0
    /\ row_sel(plan, 8) = {4}

\* C30: for a recognized macro, whose depth is 2^(width of its address
\* pin), and every bits > 0 and line_num > 1: bank_num divides bits_roundup,
\* row_num divides line_num_roundup and lines_per_row is a power of two, so
\* the only fatal geometry checks that can stop the build are the two
\* granularity checks.
C30_MacroGeometry ==
    (Planned /\ cfg.has_sram) =>
        /\ cfg.bits > 0 /\ cfg.line_num > 1
        /\ plan.ram_line_num = MacroLines
        /\ plan.bits_roundup % plan.bank_num = 0
        /\ plan.line_num_roundup % plan.row_num = 0
        /\ is_pow2(plan.lines_per_row)
        /\ plan.fatal \subseteq {"bit_sel_bits", "bit_sel_bank"}
        /\ pc = "fatal" <=> ~GranularityFits

\* three bits and three lines on a macro of two bits and two lines with
\* granularity 3: padded in both dimensions, stopped by both granularity
\* checks and by nothing else
C30_Witness ==
    /\ Planned
    /\ cfg.has_sram
    /\ plan.bank_num = 2 /\ plan.row_num = 2
    /\ plan.bits_roundup > cfg.bits
    /\ plan.line_num_roundup > cfg.line_num
    /\ plan.bit_sel = 3
    /\ pc = "fatal"
    /\ plan.fatal = {"bit_sel_bits", "bit_sel_bank"}

(***************************************************************************)
(* Properties of the decode logic (specification SpecComb).                *)
(***************************************************************************)
Settled == pc = "settled"

\* C4: for every accepted configuration and every write or read address A in
\* [0, line_num), the row-select vector of the port has exactly one bit set,
\* at index floor(A / lines_per_row) (bit 0 when row_num = 1), so that the
\* 'without any row selected' assertions cannot fire.
C4_RowSelect ==
    Settled =>
        \A n \in Ports :
            /\ (CanWrite(plan, n) /\ io[n].wr_addr < cfg.line_num) =>
                  /\ sig[n].wr_row_sel = {io[n].wr_addr \div plan.lines_per_row}
                  /\ "wr_no_row_sel" \notin sig[n].asserts
            /\ (CanRead(plan, n) /\ io[n].rd_addr < cfg.line_num) =>
                  /\ sig[n].rd_row_sel = {io[n].rd_addr \div plan.lines_per_row}
                  /\ "rd_no_row_sel" \notin sig[n].asserts

\* a write to the last line of a memory of more than two rows selects the
\* last row
C4_Witness ==
    /\ Settled
    /\ plan.row_num > 2
    /\ io[0].wr
    /\ io[0].wr_addr = cfg.line_num - 1
    /\ sig[0].wr_row_sel = {plan.row_num - 1}

\* the banks whose slice of the write-select mask has a bit set
MaskedBanks(n) == { x \in Banks(plan) : \E j \in sig[n].wr_sel : j \div plan.bits_per_bank = x }

\* C5 (as the code has it): an active read selects every bank of the row; an
\* active write selects exactly the banks whose slice of the write-select
\* mask is not zero - all banks under a full mask, none under a zero mask.
C5_BankSelect ==
    Settled =>
        \A n \in Ports :
            /\ (CanRead(plan, n) /\ io[n].rd /\ io[n].rd_addr < cfg.line_num) =>
                  sig[n].bank_rd_sel = Banks(plan)
            /\ (CanWrite(plan, n) /\ io[n].wr /\ io[n].wr_addr < cfg.line_num) =>
                  sig[n].bank_wr_sel = MaskedBanks(n)

\* C5 as stated: every active write or read to an in-range address has
\* exactly one bit set in the port's bank-select vector.
C5_ExactlyOneBank ==
    Settled =>
        \A n \in Ports :
            /\ (CanRead(plan, n) /\ io[n].rd /\ io[n].rd_addr < cfg.line_num) =>
                  Cardinality(sig[n].bank_rd_sel) = 1
            /\ (CanWrite(plan, n) /\ io[n].wr /\ io[n].wr_addr < cfg.line_num) =>
                  Cardinality(sig[n].bank_wr_sel) = 1

\* a write whose mask touches two of three banks selects those two
C5_Witness ==
    /\ Settled
    /\ plan.bank_num = 3
    /\ io[0].wr
    /\ Cardinality(sig[0].bank_wr_sel) = 2
    /\ sig[0].bank_wr_sel = MaskedBanks(0)

\* C6 as stated: whatever a caller drives on a port, no active write or read
\* meets an all-zero bank-select vector, so the 'without any bank selected'
\* assertions never fire.
C6_NoBankAssertion ==
    Settled =>
        \A n \in Ports :
            /\ (CanWrite(plan, n) /\ io[n].wr /\ io[n].wr_addr < cfg.line_num) =>
                  "wr_no_bank_sel" \notin sig[n].asserts
            /\ (CanRead(plan, n) /\ io[n].rd /\ io[n].rd_addr < cfg.line_num) =>
                  "rd_no_bank_sel" \notin sig[n].asserts

\* a write with an all-zero select vector fires the write assertion
C6_Witness ==
    /\ Settled
    /\ io[0].wr
    /\ io[0].wr_in = {}
    /\ "wr_no_bank_sel" \in sig[0].asserts

Scenario9 == Settled /\ plan.bit_sel = 8 /\ cfg.bits = 17

\* C9 (as the code has it): with granularity 8 and bits = 17 the strobe has
\* 2 bits and no remainder bit of its own; strobe 0b01 selects bits 0..7 and
\* nothing else; strobe 0b10 selects bits 8..15 together with bit 16; no
\* strobe selects bit 16 alone.
C9_Scenario ==
    Scenario9 =>
        \A n \in Ports :
            CanWrite(plan, n) =>
                /\ SelInputBits(cfg, plan) = {0, 1}
                /\ io[n].wr_in = {0} => sig[n].wr_sel = 0 .. 7
                /\ io[n].wr_in = {1} => sig[n].wr_sel = 8 .. 16
                /\ sig[n].wr_sel # {16}

\* C9 as stated: the strobe has 2 full bits plus a remainder bit, strobe 0b01
\* selects only the second granule (bits 8..15), and the remainder bit alone
\* selects bit 16 alone.
C9_AsStated ==
    Scenario9 =>
        \A n \in Ports :
            CanWrite(plan, n) =>
                /\ SelInputBits(cfg, plan) = {0, 1, 2}
                /\ io[n].wr_in = {0} => sig[n].wr_sel = 8 .. 15
                /\ io[n].wr_in = {2} => sig[n].wr_sel = {16}

\* the scenario's memory written with strobe 0b10
C9_Witness ==
    /\ Scenario9
    /\ io[0].wr
    /\ io[0].wr_in = {1}
    /\ sig[0].wr_sel = 8 .. 16


\* the strobe bit that the expansion assigns mask bit j from
StrobeOf(j) ==
    IF j < plan.bit_sel * strb_bits(cfg, plan) THEN j \div plan.bit_sel
    ELSE strb_bits(cfg, plan) - 1

\* C28 as stated: with granularity bit_sel > 1 the strobe input has at least
\* one bit, and every bit of the expanded write mask is driven by one
\* strobe bit that exists, also when bits is smaller than bit_sel.
C28_StrobeExists ==
    (Settled /\ plan.bit_sel > 1) =>
        \A n \in Ports :
            CanWrite(plan, n) =>
                /\ strb_bits(cfg, plan) >= 1
                /\ \A j \in AllOnes(cfg.bits) :
                      /\ StrobeOf(j) \in AllOnes(strb_bits(cfg, plan))
                      /\ (j \in sig[n].wr_sel) <=> (StrobeOf(j) \in io[n].wr_in)

\* one bit asked of a macro two bits wide with granularity 2: the strobe
\* input has no bit, and the mask bit is assigned from strobe bit -1
C28_Witness ==
    /\ Settled
    /\ cfg.has_sram
    /\ plan.bit_sel = 2
    /\ cfg.bits = 1
    /\ plan.bits_roundup = 2
    /\ strb_bits(cfg, plan) = 0
    /\ StrobeOf(0) = -1
    /\ io[0].wr
    /\ sig[0].wr_sel = {0}


====
